---- MODULE Spec2Model ----
(***************************************************************************)
(* The REQ socket of nanomsg (src/patterns/reqrep/req.c): request/reply    *)
(* correlation by a 31-bit request ID, timer-driven resend, option         *)
(* handling and termination, on top of the raw XREQ socket.                *)
(***************************************************************************)
EXTENDS Integers, Sequences, FiniteSets, TLC

(***************************************************************************)
(* Bounds of the model.                                                    *)
(***************************************************************************)
\* Number of sp_req_send calls explored in one behaviour.
MaxSends == 2
\* Capacity of the raw socket's inbound queue of replies.
MaxQueue == 2

(***************************************************************************)
(* Program constants.                                                      *)
(***************************************************************************)
SP_REQ_DEFAULT_RESEND_IVL == 60000
SP_REQ_INPROGRESS == 1
\* 0x7fffffff, the mask of the comparable request ID.
IdMask == 2147483647
\* sizeof (uint32_t), the length of the tag.
SizeofUint32 == 4
\* sizeof (int), the length of the SP_RESEND_IVL option value.
SizeofInt == 4

NULL == 0

(***************************************************************************)
(* Inputs explored.                                                        *)
(***************************************************************************)
\* Values sp_random_generate may put into reqid (32 bits, before masking):
\* 0xfffffffe, which has bit 31 set and whose successors reach 0x7fffffff
\* and then wrap to 0.
\* (A 32-bit value is written [hi, lo]: its bit 31 and its low 31 bits.)
Seeds == { [hi |-> 1, lo |-> 2147483646] }
\* Request payloads handed to send.
Payloads == {<<1, 2>>}
\* Payloads the peer puts after the tag of its reply.
ReplyPayloads == {<<>>, <<7, 8>>}
\* Capacities of the caller's buffer in recv (*len on entry).
Caps == {1, 2, 3}
\* Option identifiers, option value lengths and option values.
Options == {"SP_RESEND_IVL", "SP_OTHER"}
OptLens == {2, 4, 8}
OptVals == {100}
\* Heap addresses.
Ptrs == {1, 2}

\* Return codes.
OK == "0"
EAGAIN == "-EAGAIN"
EFSM == "-EFSM"
EINVAL == "-EINVAL"
ENOPROTOOPT == "-ENOPROTOOPT"
EFATAL == "-EFATAL"

VARIABLES
    reqid,          \* struct sp_req: the current request ID (a uint32_t)
    flags,          \* struct sp_req: SP_REQ_INPROGRESS or 0
    requestlen,     \* struct sp_req: length of the stored request
    request,        \* struct sp_req: address of the stored request, or NULL
    resend_ivl,     \* struct sp_req: the resend interval
    resend_timer,   \* struct sp_req: [armed, ivl, starts] of the resend timer
    heap,           \* live allocations: address -> bytes
    inq,            \* raw socket: replies waiting to be received
    outq,           \* raw socket: requests accepted and not yet answered
    status,         \* "open", "closed" or "aborted" (a failed assertion)
    op,             \* the operation that ran last
    rc,             \* its return code
    reply,          \* recv: <<frame>> pulled from the raw socket, or <<>>
    dispatched,     \* send/resend: <<buffer>> handed to the raw socket, or <<>>
    rawrc,          \* what the raw socket answered to the last raw call
    ubuf,           \* recv: the caller's buffer after the call
    ulen,           \* recv: the caller's *len after the call
    optout,         \* getopt: [val, len] written to the caller, or <<>>
    optlen0,        \* getopt: the *optvallen it read on entry (0: not read)
    id0,            \* the seeded request ID (after masking), 0..0x7fffffff
    nsends,         \* number of sp_req_send calls so far
    issued,         \* the tags sp_req_send has written so far, in order
    pc              \* sp_req_send: the statement it is at, "idle" outside send

vars == <<reqid, flags, requestlen, request, resend_ivl, resend_timer, heap,
          inq, outq, status, op, rc, reply, dispatched, rawrc, ubuf, ulen,
          optout, optlen0, id0, nsends, issued, pc>>

(***************************************************************************)
(* 32-bit arithmetic.  A uint32_t is the record [hi, lo] of its bit 31 and *)
(* its low 31 bits, so that every intermediate value stays below 2^31.     *)
(***************************************************************************)
U32(h, l) == [hi |-> h, lo |-> l]

\* 0x80000000, the marker bit of a tagged request or reply.
MarkerBit == U32(1, 0)
\* 0x7fffffff as a uint32_t.
IdMask32 == U32(0, IdMask)

\* a & b on non-negative integers below 2^31.
RECURSIVE BitAnd(_, _)
BitAnd(a, b) ==
    IF a = 0 \/ b = 0 THEN 0
    ELSE (IF a % 2 = 1 /\ b % 2 = 1 THEN 1 ELSE 0) + 2 * BitAnd(a \div 2, b \div 2)

\* a | b on non-negative integers below 2^31.
RECURSIVE BitOr(_, _)
BitOr(a, b) ==
    IF a = 0 THEN b
    ELSE IF b = 0 THEN a
    ELSE (IF a % 2 = 1 \/ b % 2 = 1 THEN 1 ELSE 0) + 2 * BitOr(a \div 2, b \div 2)

\* a & b and a | b on uint32_t.
And32(a, b) == U32(a.hi * b.hi, BitAnd(a.lo, b.lo))
Or32(a, b) == U32(IF a.hi + b.hi > 0 THEN 1 ELSE 0, BitOr(a.lo, b.lo))

\* ++x on a uint32_t.
Incr32(x) == IF x.lo = IdMask THEN U32(1 - x.hi, 0) ELSE U32(x.hi, x.lo + 1)

\* Bug: the bits are left set.
ClearBitsKept(f, b) == f

\* f & ~b on the flags word.
ClearBits(f, b) == f - BitAnd(f, b)

(***************************************************************************)
(* Collaborators: wire codec, allocator, timers, the raw XREQ socket.      *)
(***************************************************************************)
\* sp_putl: the 4 bytes of a 32-bit value, most significant first.
sp_putl(v) ==
    << (v.hi * 128) + (v.lo \div 16777216), (v.lo \div 65536) % 256,
       (v.lo \div 256) % 256, v.lo % 256 >>

\* sp_getl: the 32-bit value of the first 4 bytes, most significant first.
sp_getl(b) ==
    U32(b[1] \div 128, (((b[1] % 128) * 256 + b[2]) * 256 + b[3]) * 256 + b[4])

\* sp_alloc: a free address (NULL when the heap is exhausted).
sp_alloc(h) ==
    IF Ptrs \ DOMAIN h = {} THEN NULL
    ELSE CHOOSE p \in Ptrs \ DOMAIN h : \A q \in Ptrs \ DOMAIN h : p <= q

\* The heap with bytes b stored at address p.
HeapPut(h, p, b) == [q \in DOMAIN h \cup {p} |-> IF q = p THEN b ELSE h[q]]

\* sp_free: the heap without the allocation at p.
sp_free(h, p) == [q \in DOMAIN h \ {p} |-> h[q]]

\* Freeing an address that is not a live allocation (double free, wild free).
BadFree(h, p) == p # NULL /\ p \notin DOMAIN h

\* sp_sockbase_timer_start: arm the single-shot timer for ivl; clash records
\* a start of a timer that is still armed.
sp_sockbase_timer_start(t, ivl) ==
    [armed |-> TRUE, ivl |-> ivl, clash |-> t.clash \/ t.armed]

\* sp_sockbase_timer_cancel: disarm the timer (idempotent).
sp_sockbase_timer_cancel(t) == [t EXCEPT !.armed = FALSE]

\* The timer after it expired: a single-shot timer is no longer armed.
TimerFired(t) == [t EXCEPT !.armed = FALSE]

\* sp_xreq_send: the raw socket's set of accepted requests after it was handed
\* buffer b and answered r.
sp_xreq_send(q, b, r) == IF r = OK THEN q \cup {b} ELSE q

\* sp_xreq_recv: the bytes put into a buffer of capacity cap for message m
\* (the reported length is the length of m).
sp_xreq_recv(m, cap) == SubSeq(m, 1, IF Len(m) < cap THEN Len(m) ELSE cap)

\* memcpy into a buffer: the buffer with its first n bytes replaced by src.
Memcpy(dst, src, n) == [i \in 1..Len(dst) |-> IF i <= n THEN src[i] ELSE dst[i]]

\* The caller's buffer before recv: cap bytes the call has not written.
CallerBuf(cap) == [i \in 1..cap |-> 170]

(***************************************************************************)
(* struct sp_req helpers.                                                  *)
(***************************************************************************)
\* Bug: SP_REQ_INPROGRESS is or-ed into the flags instead of tested.
InProgressOr(f) == BitOr(f, SP_REQ_INPROGRESS) # 0

\* The test flags & SP_REQ_INPROGRESS.
InProgress(f) == BitAnd(f, SP_REQ_INPROGRESS) # 0

\* Bug: the mask of the request ID is forgotten.
NextReqidUnmasked(id) == Incr32(id)

\* Bug: the request ID is not advanced.
NextReqidStuck(id) == And32(id, IdMask32)

\* The request ID of the next request (req.c: ++reqid; reqid &= 0x7fffffff).
NextReqid(id) == And32(Incr32(id), IdMask32)

\* The stored request: the tag followed by the caller's bytes.
TaggedRequest(id, buf) == sp_putl(Or32(id, MarkerBit)) \o buf

\* Bug: the raw socket's answer is returned to the caller.
SendResultRaw(r) == r

\* What send returns when the raw socket answered r: pushback is ignored
\* ("we'll pretend it was sent anyway").
SendResult(r) == OK

\* Bug: the resend skips the tag and hands over the payload alone.
ResendBufferUntagged(h, p, len) == SubSeq(h[p], SizeofUint32 + 1, len)

\* The buffer the resend routine hands to the raw socket: the stored request.
ResendBuffer(h, p, len) == SubSeq(h[p], 1, len)

\* Bug: the resend routine starts the timer for the interval it had before.
ResendRearmStale(t, ivl) == sp_sockbase_timer_start(TimerFired(t), t.ivl)

\* Bug: the resend routine does not start the timer again.
ResendNoRearm(t, ivl) == TimerFired(t)

\* The resend routine sets up the next re-send timer (the one that fired).
ResendRearm(t, ivl) == sp_sockbase_timer_start(TimerFired(t), ivl)

\* Bug: the marker bit of the reply's tag is not checked.
ReplyUnmarkedSkipped(r) == FALSE

\* Bug: a reply that is a tag without payload is taken for malformed.
ReplyTooShortOffByOne(replylen) == replylen <= SizeofUint32

\* recv's checks of a pulled reply: TRUE when the reply is to be ignored.
ReplyTooShort(replylen) == replylen < SizeofUint32
ReplyUnmarked(r) == And32(sp_getl(r), MarkerBit) = U32(0, 0)
\* Bug: the tag is compared without masking off the marker bit.
ReplyForeignUnmasked(r, id) == sp_getl(r) # id

ReplyForeign(r, id) == And32(sp_getl(r), IdMask32) # id

\* The number of payload bytes recv copies to the caller: the smaller of *len
\* and the reply's length without the tag.
CopyLen(len, replylen) ==
    IF len < replylen - SizeofUint32 THEN len ELSE replylen - SizeofUint32

\* Bug: *len is set to the number of bytes copied.
ReportedLenCopied(len, replylen) == CopyLen(len, replylen)

\* What recv stores into *len (on entry: len): the reply's length without the
\* tag.
ReportedLen(len, replylen) == replylen - SizeofUint32

\* Bug: a superseding send leaves the old timer running.
SupersedeTimerKept(t) == t

\* send, superseding: the timer of the request it cancels.
SupersedeTimer(t) == sp_sockbase_timer_cancel(t)

\* Bug: recv's clean-up leaves the timer running.
RecvCleanupTimerKept(t) == t

\* recv's clean-up of the timer after a correct reply.
RecvCleanupTimer(t) == sp_sockbase_timer_cancel(t)

\* Bug: the temporary reply buffer is not freed on the way out.
FreeReplyLeak(h, rp) == h

\* sp_free (reply): recv releases its temporary reply buffer.
FreeReply(h, rp) == sp_free(h, rp)

TypeOK ==
    /\ reqid.hi = 0 /\ reqid.lo \in 0..IdMask
    /\ flags \in {0, SP_REQ_INPROGRESS}
    /\ request \in Ptrs \cup {NULL}
    /\ DOMAIN heap \subseteq Ptrs
    /\ Len(inq) <= MaxQueue
    /\ status \in {"open", "closed", "aborted", "corrupt"}
    /\ nsends \in 0..MaxSends

Init ==
    /\ \E seed \in Seeds :
          /\ reqid = And32(seed, IdMask32)
          /\ id0 = And32(seed, IdMask32).lo
    /\ flags = 0
    /\ requestlen = 0
    /\ request = NULL
    /\ resend_ivl = SP_REQ_DEFAULT_RESEND_IVL
    /\ resend_timer = [armed |-> FALSE, ivl |-> 0, clash |-> FALSE]
    /\ heap = << >>
    /\ inq = << >>
    /\ outq = {}
    /\ status = "open"
    /\ op = "init"
    /\ rc = OK
    /\ reply = << >>
    /\ dispatched = << >>
    /\ rawrc = "none"
    /\ ubuf = << >>
    /\ ulen = 0
    /\ optout = << >>
    /\ optlen0 = 0
    /\ nsends = 0
    /\ issued = << >>
    /\ pc = "idle"

\* What an operation that is not recv, send, resend or getopt leaves in the
\* observation variables.
NoRecvOut == reply' = << >> /\ ubuf' = << >> /\ ulen' = 0
NoSendOut == dispatched' = << >> /\ rawrc' = "none"
NoOptOut == optout' = << >> /\ optlen0' = 0

\* A failed assertion (sp_assert, errnum_assert, alloc_assert) ends the
\* process: its memory, its timers and its sockets are gone.
Abort(name, r) ==
    /\ status' = "aborted"
    /\ op' = name
    /\ reqid' = U32(0, 0)
    /\ flags' = 0
    /\ requestlen' = 0
    /\ request' = NULL
    /\ resend_ivl' = 0
    /\ resend_timer' = [armed |-> FALSE, ivl |-> 0, clash |-> FALSE]
    /\ heap' = << >>
    /\ inq' = << >>
    /\ outq' = {}
    /\ rc' = "none"
    /\ UNCHANGED <<id0, nsends, issued>>
    /\ pc' = "idle"
    /\ dispatched' = << >>
    /\ rawrc' = r
    /\ NoRecvOut /\ NoOptOut

(***************************************************************************)
(* sp_req_send (struct sp_sockbase *self, const void *buf, size_t len),    *)
(* the raw socket answering r to sp_xreq_send.                             *)
(***************************************************************************)
sp_req_send(buf, r) ==
    /\ status = "open"
    /\ nsends < MaxSends
    /\ LET inprog == InProgress(flags)
           \* If there's a request in progress, cancel it.
           heap1 == IF inprog THEN sp_free(heap, request) ELSE heap
           flags1 == IF inprog THEN ClearBits(flags, SP_REQ_INPROGRESS)
                     ELSE flags
           timer1 == IF inprog THEN SupersedeTimer(resend_timer)
                     ELSE resend_timer
           \* Generate new request ID for the new request.
           reqid1 == NextReqid(reqid)
           \* Store the message, tagged with the request ID.
           len1 == SizeofUint32 + Len(buf)
           p == sp_alloc(heap1)
           bytes == TaggedRequest(reqid1, buf)
       IN  IF p = NULL \/ r \notin {OK, EAGAIN}
           THEN Abort("send", IF p = NULL THEN "none" ELSE r)
           ELSE /\ reqid' = reqid1
                /\ requestlen' = len1
                /\ request' = p
                /\ heap' = HeapPut(heap1, p, bytes)
                \* Send the message; pushback is ignored.
                /\ outq' = sp_xreq_send(outq, SubSeq(bytes, 1, len1), r)
                /\ dispatched' = << SubSeq(bytes, 1, len1) >>
                /\ rawrc' = r
                \* Remember that we are processing a request.
                /\ flags' = BitOr(flags1, SP_REQ_INPROGRESS)
                \* Set up the re-send timer.
                /\ resend_timer' = sp_sockbase_timer_start(timer1, resend_ivl)
                /\ status' = IF inprog /\ BadFree(heap, request)
                             THEN "corrupt" ELSE status
                /\ op' = "send"
                /\ rc' = SendResult(r)
                /\ nsends' = nsends + 1
                /\ issued' = Append(issued, sp_getl(bytes))
                /\ NoRecvOut /\ NoOptOut
                /\ pc' = "idle"
                /\ UNCHANGED <<resend_ivl, inq, id0>>

(***************************************************************************)
(* sp_req_recv (struct sp_sockbase *self, void *buf, size_t *len), called  *)
(* with *len = cap, the raw socket answering r to sp_xreq_recv.            *)
(***************************************************************************)
\* Bug: a rejected reply's length is stored into *len.
RecvFailsLen(code, cap, pulled, r, h1) ==
    /\ rc' = code
    /\ heap' = h1
    /\ op' = "recv"
    /\ reply' = pulled
    /\ rawrc' = r
    /\ ubuf' = CallerBuf(cap)
    /\ ulen' = IF pulled = << >> THEN cap ELSE Len(pulled[1])
    /\ inq' = IF pulled = << >> THEN inq ELSE Tail(inq)
    /\ dispatched' = << >>
    /\ NoOptOut
    /\ UNCHANGED <<reqid, flags, requestlen, request, resend_ivl, resend_timer,
                   outq, status, id0, nsends, issued, pc>>

\* recv returns without touching the socket's state; pulled is what it took
\* from the raw socket, h1 the heap it leaves.
RecvFails(code, cap, pulled, r, h1) ==
    /\ rc' = code
    /\ heap' = h1
    /\ op' = "recv"
    /\ reply' = pulled
    /\ rawrc' = r
    /\ ubuf' = CallerBuf(cap)
    /\ ulen' = cap
    /\ inq' = IF pulled = << >> THEN inq ELSE Tail(inq)
    /\ dispatched' = << >>
    /\ NoOptOut
    /\ UNCHANGED <<reqid, flags, requestlen, request, resend_ivl, resend_timer,
                   outq, status, id0, nsends, issued, pc>>

sp_req_recv(cap, r) ==
    /\ status = "open"
    /\ r = OK => inq # << >>
    /\ r = EAGAIN => inq = << >>
    /\ IF ~InProgress(flags)
       THEN \* No request was sent. Waiting for a reply doesn't make sense.
            \* (The raw socket is not asked: r is the one answer it would give.)
            /\ r = (IF inq = << >> THEN EAGAIN ELSE OK)
            /\ RecvFails(EFSM, cap, << >>, "none", heap)
       ELSE LET replycap == SizeofUint32 + cap
                rp == sp_alloc(heap)
            IN  IF rp = NULL \/ r \notin {OK, EAGAIN}
                THEN Abort("recv", IF rp = NULL THEN "none" ELSE r)
                ELSE IF r = EAGAIN
                THEN RecvFails(EAGAIN, cap, << >>, r,
                               FreeReply(HeapPut(heap, rp, << >>), rp))
                ELSE LET msg == Head(inq)
                         replylen == Len(msg)
                         rbuf == sp_xreq_recv(msg, replycap)
                         \* The heap holding the reply; the heap once the
                         \* reply is freed.
                         heapR == HeapPut(heap, rp, rbuf)
                         heapF == FreeReply(heapR, rp)
                         n == CopyLen(cap, replylen)
                     IN  IF ReplyTooShort(replylen)
                         THEN RecvFails(EAGAIN, cap, << msg >>, r, heapF)
                         ELSE IF ReplyUnmarked(rbuf)
                         THEN RecvFails(EAGAIN, cap, << msg >>, r, heapF)
                         ELSE IF ReplyForeign(rbuf, reqid)
                         THEN RecvFails(EAGAIN, cap, << msg >>, r, heapF)
                         ELSE \* Correct reply received. Pass it to the caller.
                              /\ ubuf' = Memcpy(CallerBuf(cap),
                                                SubSeq(rbuf, SizeofUint32 + 1, Len(rbuf)), n)
                              /\ ulen' = ReportedLen(cap, replylen)
                              \* Clean-up.
                              /\ resend_timer' = RecvCleanupTimer(resend_timer)
                              /\ heap' = sp_free(heapF, request)
                              /\ status' = IF BadFree(heapF, request)
                                           THEN "corrupt" ELSE status
                              /\ requestlen' = 0
                              /\ request' = NULL
                              /\ flags' = ClearBits(flags, SP_REQ_INPROGRESS)
                              /\ inq' = Tail(inq)
                              /\ reply' = << msg >>
                              /\ rawrc' = r
                              /\ op' = "recv"
                              /\ rc' = OK
                              /\ dispatched' = << >>
                              /\ NoOptOut
                              /\ UNCHANGED <<reqid, resend_ivl, outq, id0, nsends, issued, pc>>

(***************************************************************************)
(* sp_req_resend_routine (struct sp_sockbase_timer *self): the armed timer *)
(* expires, the raw socket answering r to sp_xreq_send.                    *)
(***************************************************************************)
sp_req_resend_routine(r) ==
    /\ status = "open"
    /\ resend_timer.armed
    /\ IF ~InProgress(flags) \/ r \notin {OK, EAGAIN}
       THEN Abort("resend", IF ~InProgress(flags) THEN "none" ELSE r)
       ELSE LET buffer == IF request \in DOMAIN heap
                          THEN ResendBuffer(heap, request, requestlen)
                          ELSE << >>
            IN  \* Re-send the request.
                /\ outq' = sp_xreq_send(outq, buffer, r)
                /\ dispatched' = << buffer >>
                /\ rawrc' = r
                \* Set up the next re-send timer.
                /\ resend_timer' = ResendRearm(resend_timer, resend_ivl)
                /\ status' = IF request \in DOMAIN heap THEN status ELSE "corrupt"
                /\ op' = "resend"
                /\ rc' = OK
                /\ NoRecvOut /\ NoOptOut
                /\ UNCHANGED <<reqid, flags, requestlen, request, resend_ivl,
                               heap, inq, id0, nsends, issued, pc>>

\* Bug: the option length is checked as in getopt (too short only).
sp_req_setoptLax(option, val, optvallen) ==
    /\ status = "open"
    /\ IF option = "SP_RESEND_IVL"
       THEN IF optvallen < SizeofInt
            THEN rc' = EINVAL /\ resend_ivl' = resend_ivl
            ELSE rc' = OK /\ resend_ivl' = val
       ELSE rc' = ENOPROTOOPT /\ resend_ivl' = resend_ivl
    /\ op' = "setopt"
    /\ NoRecvOut /\ NoSendOut /\ NoOptOut
    /\ UNCHANGED <<reqid, flags, requestlen, request, resend_timer, heap, inq,
                   outq, status, id0, nsends, issued, pc>>

(***************************************************************************)
(* sp_req_setopt (self, option, optval, optvallen), *optval = val.         *)
(***************************************************************************)
sp_req_setopt(option, val, optvallen) ==
    /\ status = "open"
    /\ IF option = "SP_RESEND_IVL"
       THEN IF optvallen # SizeofInt
            THEN rc' = EINVAL /\ resend_ivl' = resend_ivl
            ELSE rc' = OK /\ resend_ivl' = val
       ELSE rc' = ENOPROTOOPT /\ resend_ivl' = resend_ivl
    /\ op' = "setopt"
    /\ NoRecvOut /\ NoSendOut /\ NoOptOut
    /\ UNCHANGED <<reqid, flags, requestlen, request, resend_timer, heap, inq,
                   outq, status, id0, nsends, issued, pc>>

\* Bug: getopt insists on a buffer of exactly sizeof (int), as setopt does.
sp_req_getoptStrict(option, optvallen) ==
    /\ status = "open"
    /\ IF option = "SP_RESEND_IVL"
       THEN IF optvallen # SizeofInt
            THEN rc' = EINVAL /\ optout' = << >>
            ELSE rc' = OK /\ optout' = << [val |-> resend_ivl, len |-> SizeofInt] >>
       ELSE rc' = ENOPROTOOPT /\ optout' = << >>
    /\ optlen0' = IF option = "SP_RESEND_IVL" THEN optvallen ELSE 0
    /\ op' = "getopt"
    /\ NoRecvOut /\ NoSendOut
    /\ UNCHANGED <<reqid, flags, requestlen, request, resend_ivl, resend_timer,
                   heap, inq, outq, status, id0, nsends, issued, pc>>

(***************************************************************************)
(* sp_req_getopt (self, option, optval, optvallen), *optvallen = len on    *)
(* entry.                                                                  *)
(***************************************************************************)
sp_req_getopt(option, optvallen) ==
    /\ status = "open"
    /\ IF option = "SP_RESEND_IVL"
       THEN IF optvallen < SizeofInt
            THEN rc' = EINVAL /\ optout' = << >>
            ELSE rc' = OK /\ optout' = << [val |-> resend_ivl, len |-> SizeofInt] >>
       ELSE rc' = ENOPROTOOPT /\ optout' = << >>
    /\ optlen0' = IF option = "SP_RESEND_IVL" THEN optvallen ELSE 0
    /\ op' = "getopt"
    /\ NoRecvOut /\ NoSendOut
    /\ UNCHANGED <<reqid, flags, requestlen, request, resend_ivl, resend_timer,
                   heap, inq, outq, status, id0, nsends, issued, pc>>

\* Bug: term cancels the timer and forgets the stored request.
sp_req_termLeak ==
    /\ status = "open"
    /\ IF InProgress(flags)
       THEN /\ resend_timer' = sp_sockbase_timer_cancel(resend_timer)
            /\ heap' = heap
            /\ status' = "closed"
       ELSE /\ UNCHANGED <<resend_timer, heap>>
            /\ status' = "closed"
    /\ inq' = << >>
    /\ outq' = {}
    /\ op' = "term"
    /\ rc' = OK
    /\ NoRecvOut /\ NoSendOut /\ NoOptOut
    /\ UNCHANGED <<reqid, flags, requestlen, request, resend_ivl, id0,
                   nsends, issued, pc>>

(***************************************************************************)
(* sp_req_term (struct sp_sockbase *self).                                 *)
(***************************************************************************)
sp_req_term ==
    /\ status = "open"
    /\ IF InProgress(flags)
       THEN /\ resend_timer' = sp_sockbase_timer_cancel(resend_timer)
            /\ heap' = sp_free(heap, request)
            /\ status' = IF BadFree(heap, request) THEN "corrupt" ELSE "closed"
       ELSE /\ UNCHANGED <<resend_timer, heap>>
            /\ status' = "closed"
    \* sp_xreq_term: the raw socket is gone.
    /\ inq' = << >>
    /\ outq' = {}
    /\ op' = "term"
    /\ rc' = OK
    /\ NoRecvOut /\ NoSendOut /\ NoOptOut
    /\ UNCHANGED <<reqid, flags, requestlen, request, resend_ivl, id0,
                   nsends, issued, pc>>

(***************************************************************************)
(* The environment: the peer and the network behind the raw socket.        *)
(***************************************************************************)
Env ==
    /\ op' = "env"
    /\ rc' = OK
    /\ NoRecvOut /\ NoSendOut /\ NoOptOut
    /\ UNCHANGED <<reqid, flags, requestlen, request, resend_ivl, resend_timer,
                   heap, status, id0, nsends, issued, pc>>

\* The peer answers an accepted request f with a reply carrying f's tag,
\* followed by the reply's payload pl.
PeerReply(f, pl) ==
    /\ status = "open"
    /\ f \in outq
    /\ Len(inq) < MaxQueue
    /\ inq' = Append(inq, SubSeq(f, 1, SizeofUint32) \o pl)
    /\ outq' = outq \ {f}
    /\ Env

\* Frames no correct peer sends: a frame shorter than a tag and a frame
\* whose tag lacks the marker bit.  (Replies tagged with another ID than the
\* current one are the peer's answers to superseded requests.)
StrayFrames(id) ==
    { SubSeq(sp_putl(U32(1, id.lo)), 1, 3),
      sp_putl(U32(0, id.lo)) \o << 7 >> }

\* The network delivers a stray frame.
Stray(f) ==
    /\ status = "open"
    /\ Len(inq) < MaxQueue
    /\ inq' = Append(inq, f)
    /\ outq' = outq
    /\ Env

Next ==
    \/ \E buf \in Payloads, r \in {OK, EAGAIN, EFATAL} : sp_req_send(buf, r)
    \/ \E cap \in Caps, r \in {OK, EAGAIN, EFATAL} : sp_req_recv(cap, r)
    \/ \E r \in {OK, EAGAIN, EFATAL} : sp_req_resend_routine(r)
    \/ \E o \in Options, v \in OptVals, l \in OptLens : sp_req_setopt(o, v, l)
    \/ \E o \in Options, l \in OptLens : sp_req_getopt(o, l)
    \/ sp_req_term
    \/ \E f \in outq, pl \in ReplyPayloads : PeerReply(f, pl)
    \/ \E f \in StrayFrames(reqid) : Stray(f)

Spec == Init /\ [][Next]_vars

(***************************************************************************)
(* The same program under the scheduling the liveness properties assume:   *)
(* an armed timer expires, the raw socket accepts a buffer among those it  *)
(* is handed again and again, the peer answers the requests it was given,  *)
(* and the caller keeps calling recv while replies are waiting.            *)
(***************************************************************************)
TimerExpires == \E r \in {OK, EAGAIN} : sp_req_resend_routine(r)
ResendAccepted == sp_req_resend_routine(OK)
PeerAnswers == \E f \in outq, pl \in ReplyPayloads : PeerReply(f, pl)
CallerPolls == \E cap \in Caps : sp_req_recv(cap, OK)

LiveSpec ==
    /\ Init /\ [][Next]_vars
    /\ WF_vars(TimerExpires)
    /\ WF_vars(ResendAccepted)
    /\ SF_vars(PeerAnswers)
    /\ SF_vars(CallerPolls)

(***************************************************************************)
(* sp_req_send statement by statement (req.c:113-119, then the rest), with *)
(* the timer's callback free to fire between the statements: the           *)
(* interleavings the order of the statements of a supersession is about.   *)
(***************************************************************************)
\* req.c:113-114: a request is in progress; sp_free (req->request).
SendFree ==
    /\ status = "open" /\ pc = "idle"
    /\ nsends < MaxSends
    /\ InProgress(flags)
    /\ heap' = sp_free(heap, request)
    /\ status' = IF BadFree(heap, request) THEN "corrupt" ELSE status
    /\ pc' = "forget"
    /\ UNCHANGED <<reqid, flags, requestlen, request, resend_ivl, resend_timer,
                   inq, outq, op, rc, reply, dispatched, rawrc, ubuf, ulen,
                   optout, optlen0, id0, nsends, issued>>

\* req.c:115-116: req->requestlen = 0; req->request = NULL.
SendForget ==
    /\ status = "open" /\ pc = "forget"
    /\ requestlen' = 0
    /\ request' = NULL
    /\ pc' = "clear"
    /\ UNCHANGED <<reqid, flags, resend_ivl, resend_timer, heap, inq, outq,
                   status, op, rc, reply, dispatched, rawrc, ubuf, ulen,
                   optout, optlen0, id0, nsends, issued>>

\* req.c:117: req->flags &= ~SP_REQ_INPROGRESS.
SendClear ==
    /\ status = "open" /\ pc = "clear"
    /\ flags' = ClearBits(flags, SP_REQ_INPROGRESS)
    /\ pc' = "cancel"
    /\ UNCHANGED <<reqid, requestlen, request, resend_ivl, resend_timer, heap,
                   inq, outq, status, op, rc, reply, dispatched, rawrc, ubuf,
                   ulen, optout, optlen0, id0, nsends, issued>>

\* req.c:118: sp_sockbase_timer_cancel (self, &req->resend_timer).
SendCancel ==
    /\ status = "open" /\ pc = "cancel"
    /\ resend_timer' = SupersedeTimer(resend_timer)
    /\ pc' = "rest"
    /\ UNCHANGED <<reqid, flags, requestlen, request, resend_ivl, heap, inq,
                   outq, status, op, rc, reply, dispatched, rawrc, ubuf, ulen,
                   optout, optlen0, id0, nsends, issued>>

\* req.c:121-147: the rest of send, after the supersession or without one.
SendRest(buf, r) ==
    /\ pc = "rest" \/ (pc = "idle" /\ ~InProgress(flags))
    /\ sp_req_send(buf, r)

\* The other operations run between calls of send; the callback and the
\* network do not wait for send to return.
StepNext ==
    \/ SendFree
    \/ SendForget
    \/ SendClear
    \/ SendCancel
    \/ \E buf \in Payloads, r \in {OK, EAGAIN, EFATAL} : SendRest(buf, r)
    \/ \E r \in {OK, EAGAIN, EFATAL} : sp_req_resend_routine(r)
    \/ pc = "idle" /\ \E cap \in Caps, r \in {OK, EAGAIN, EFATAL} : sp_req_recv(cap, r)
    \/ pc = "idle" /\ \E o \in Options, v \in OptVals, l \in OptLens : sp_req_setopt(o, v, l)
    \/ pc = "idle" /\ \E o \in Options, l \in OptLens : sp_req_getopt(o, l)
    \/ pc = "idle" /\ sp_req_term
    \/ \E f \in outq, pl \in ReplyPayloads : PeerReply(f, pl)
    \/ \E f \in StrayFrames(reqid) : Stray(f)

StepSpec == Init /\ [][StepNext]_vars

(***************************************************************************)
(* Properties.                                                             *)
(***************************************************************************)
\* The socket is InProgress: bit SP_REQ_INPROGRESS of the flags is set.
Pending == (flags \div SP_REQ_INPROGRESS) % 2 = 1

\* The socket is Idle: nothing stored, no timer armed.
IdleState ==
    /\ ~Pending
    /\ request = NULL
    /\ requestlen = 0
    /\ ~resend_timer.armed

\* A step of recv, of the resend routine that ran to its end.
RecvStep == op' = "recv" /\ status = "open" /\ status' # "aborted"
ResendStep == op' = "resend" /\ status = "open" /\ status' # "aborted"
\* A step of recv in which the raw socket handed over its first reply.
RecvPulled == RecvStep /\ rawrc' = OK /\ inq # << >>

\* The tag of a frame of at least 4 bytes: its marker bit and its ID.
Marked(f) == f[1] >= 128
IdOf(f) == (((f[1] % 128) * 256 + f[2]) * 256 + f[3]) * 256 + f[4]
\* f is a well-formed reply to the request with ID id.
Matches(f, id) == Len(f) >= SizeofUint32 /\ Marked(f) /\ IdOf(f) = id

\* (a + k) mod 2^31 for a below 2^31 and a small k.
AddMod31(a, k) == IF a > IdMask - k THEN (k - 1) - (IdMask - a) ELSE a + k
\* The big-endian tag of the request with ID id: id | 0x80000000.
TagBytes(id) ==
    << 128 + (id \div 16777216), (id \div 65536) % 256, (id \div 256) % 256, id % 256 >>

\* C1: a recv that, in progress, pulls a reply of at least 4 bytes whose tag
\* has bit 31 set and whose low 31 bits equal the current request ID returns
\* 0, cancels the resend timer, releases the stored request and leaves the
\* socket Idle; a recv issued after that without a send in between returns
\* -EFSM.
C1_RoundTrip ==
    [][ /\ (Pending /\ RecvPulled /\ Matches(Head(inq), reqid.lo))
                => /\ rc' = OK
                   /\ IdleState'
                   /\ request \notin DOMAIN heap'
                   /\ DOMAIN heap' = DOMAIN heap \ {request}
        /\ (op = "recv" /\ rc = OK /\ RecvStep) => rc' = EFSM
        /\ (~Pending /\ nsends > 0 /\ RecvStep) => rc' = EFSM
      ]_vars

\* C1 witness: a recv has just matched a reply after a send; the socket is
\* Idle again.
C1_Witness ==
    /\ op = "recv" /\ rc = OK /\ status = "open"
    /\ reply # << >> /\ Matches(reply[1], reqid.lo)
    /\ IdleState /\ heap = << >> /\ nsends > 0

\* C2: a recv that pulls a reply carrying the ID of an earlier request than
\* the one the most recent send issued returns -EAGAIN; recv returns 0 only
\* for a marked reply whose ID is the one the most recent send assigned.
C2_StaleRejected ==
    (op = "recv" /\ status = "open" /\ reply # << >> /\ Len(reply[1]) >= SizeofUint32)
        => LET f == reply[1]
               n == Len(issued)
           IN  /\ (\E j \in 1..(n - 1) : issued[j].lo = IdOf(f)) => rc = EAGAIN
               /\ rc = OK => (n > 0 /\ Marked(f) /\ IdOf(f) = issued[n].lo)

\* C2 witness: recv has rejected the reply to a superseded request that was
\* queued ahead of the reply to the current request.
C2_Witness ==
    /\ op = "recv" /\ rc = EAGAIN /\ status = "open"
    /\ reply # << >> /\ Len(issued) = 2
    /\ Matches(reply[1], issued[1].lo)
    /\ inq # << >> /\ Matches(Head(inq), issued[2].lo)
    /\ Pending /\ reqid.lo = issued[2].lo

\* C3: a recv that, in progress, pulls a reply shorter than 4 bytes, or with
\* bit 31 of the tag clear, or with another ID than the current one returns
\* -EAGAIN, consumes that one reply, and leaves the request ID, the stored
\* request, the in-progress flag and the armed timer as they were.
C3_MalformedTolerated ==
    [][ (Pending /\ RecvPulled /\ ~Matches(Head(inq), reqid.lo))
            => /\ rc' = EAGAIN
               /\ inq' = Tail(inq)
               /\ reply' = << Head(inq) >>
               /\ Pending'
               /\ resend_timer'.armed
               /\ UNCHANGED <<reqid, flags, request, requestlen, heap, resend_timer>>
      ]_vars

\* C3 witness: recv has rejected a reply whose tag carries the current ID
\* without the marker bit; the request is still in progress, the timer armed.
C3_Witness ==
    /\ op = "recv" /\ rc = EAGAIN /\ status = "open"
    /\ reply # << >> /\ Len(reply[1]) >= SizeofUint32
    /\ ~Marked(reply[1]) /\ IdOf(reply[1]) = reqid.lo
    /\ Pending /\ resend_timer.armed /\ request \in DOMAIN heap

\* C4: a send that the raw socket accepts or pushes back returns 0 and leaves
\* the socket InProgress, the request stored under its new tag and the timer
\* armed for the current resend interval; only another answer of the raw
\* socket stops it.
C4_SendSucceeds ==
    /\ (op = "send" /\ status # "aborted")
          => /\ rc = OK
             /\ rawrc \in {OK, EAGAIN}
             /\ Pending
             /\ request \in DOMAIN heap /\ DOMAIN heap = {request}
             /\ Len(heap[request]) = requestlen
             /\ requestlen >= SizeofUint32
             /\ SubSeq(heap[request], 1, SizeofUint32) = TagBytes(reqid.lo)
             /\ dispatched = << heap[request] >>
             /\ resend_timer.armed /\ resend_timer.ivl = resend_ivl
    /\ (op = "send" /\ status = "aborted") => rawrc \notin {OK, EAGAIN}

\* C4 witness: a second send was pushed back by the raw socket and returned 0.
C4_Witness ==
    /\ op = "send" /\ rc = OK /\ rawrc = EAGAIN /\ status = "open"
    /\ nsends = 2 /\ Pending /\ resend_timer.armed
    /\ dispatched # << >> /\ dispatched[1] \notin outq

\* C5: recv on an Idle socket returns -EFSM without pulling a reply and
\* without changing the request ID, the stored request, the flags, the timer.
C5_RecvIdleBadState ==
    [][ (~Pending /\ RecvStep)
            => /\ rc' = EFSM
               /\ reply' = << >>
               /\ UNCHANGED <<inq, outq, reqid, flags, request, requestlen, heap,
                              resend_timer, resend_ivl, status>>
      ]_vars

\* C5 witness: recv returned -EFSM before any send, a reply waiting in the
\* raw socket.
C5_Witness ==
    /\ op = "recv" /\ rc = EFSM /\ status = "open"
    /\ nsends = 0 /\ inq # << >> /\ ~Pending

\* C6: the k-th send writes the tag ((id0 + k) mod 2^31) | 0x80000000, most
\* significant byte first, whatever ran in between; the stored request ID is
\* (id0 + nsends) mod 2^31, below 2^31.
C6_MonotonicId ==
    status # "aborted"
        => /\ reqid.hi = 0
           /\ reqid.lo = AddMod31(id0, nsends)
           /\ Len(issued) = nsends
           /\ \A k \in 1..Len(issued) : issued[k] = U32(1, AddMod31(id0, k))
           /\ (op \in {"send", "resend"})
                 => /\ dispatched # << >>
                    /\ SubSeq(dispatched[1], 1, SizeofUint32)
                           = TagBytes(AddMod31(id0, nsends))

\* C6 witness: the second send after the seed 0x7ffffffe: the first request
\* had ID 0x7fffffff and the ID has wrapped to 0.
C6_Witness ==
    /\ op = "send" /\ status = "open" /\ nsends = 2
    /\ id0 = IdMask - 1
    /\ issued[1].lo = IdMask /\ reqid.lo = 0
    /\ SubSeq(dispatched[1], 1, SizeofUint32) = << 128, 0, 0, 0 >>

\* C7: a firing of the resend timer hands the raw socket exactly the stored
\* request, goes on under pushback, arms the timer again and leaves the
\* request ID, the stored request and the flags unchanged, with one request
\* buffer live.
C7_ResendIdempotent ==
    [][ /\ ResendStep
            => /\ request \in DOMAIN heap
               /\ dispatched' = << heap[request] >>
               /\ Len(dispatched'[1]) = requestlen
               /\ resend_timer'.armed
               /\ Pending /\ Pending'
               /\ UNCHANGED <<reqid, flags, request, requestlen, heap>>
               /\ Cardinality(DOMAIN heap') = 1
        /\ (op' = "resend" /\ status' = "aborted") => rawrc' \notin {OK, EAGAIN}
      ]_vars

\* C7 witness: the resend routine has run under pushback after the original
\* send was pushed back too; the request is still stored and the timer armed.
C7_Witness ==
    /\ op = "resend" /\ status = "open" /\ rawrc = EAGAIN
    /\ outq = {} /\ Pending /\ resend_timer.armed
    /\ dispatched = << heap[request] >>

\* C8: under LiveSpec a request in progress leads to a recv that returns 0,
\* unless the socket is closed or stopped by a failed assertion first.
C8_EventualReply ==
    (Pending /\ status = "open") ~> ((op = "recv" /\ rc = OK) \/ status # "open")

\* C8 witness: under LiveSpec a recv has matched the reply to the one request
\* sent; every accepted copy of the request has been answered.
C8_Witness ==
    /\ op = "recv" /\ rc = OK /\ status = "open" /\ nsends = 1
    /\ reply # << >> /\ Matches(reply[1], reqid.lo)
    /\ outq = {} /\ IdleState

C10_OptionRoundTrip ==
    [][ /\ op' = "setopt" =>
             \A o \in Options, v \in OptVals, l \in OptLens :
                sp_req_setopt(o, v, l)
                   => /\ (o = "SP_RESEND_IVL" /\ l = SizeofInt)
                            => (rc' = OK /\ resend_ivl' = v)
                      /\ (o = "SP_RESEND_IVL" /\ l # SizeofInt)
                            => (rc' = EINVAL /\ resend_ivl' = resend_ivl)
                      /\ (o # "SP_RESEND_IVL")
                            => (rc' = ENOPROTOOPT /\ resend_ivl' = resend_ivl)
                      /\ UNCHANGED <<reqid, flags, request, requestlen, heap,
                                     resend_timer, inq, outq, status>>
        /\ op' = "getopt" =>
             \A o \in Options, l \in OptLens :
                sp_req_getopt(o, l)
                   => /\ (o = "SP_RESEND_IVL" /\ l = SizeofInt)
                            => /\ rc' = OK
                               /\ optout' = << [val |-> resend_ivl, len |-> SizeofInt] >>
                      /\ (o # "SP_RESEND_IVL")
                            => (rc' = ENOPROTOOPT /\ optout' = << >>)
                      /\ UNCHANGED <<reqid, flags, request, requestlen, heap,
                                     resend_timer, resend_ivl, inq, outq, status>>
        /\ (resend_ivl' # resend_ivl /\ status' # "aborted")
                => (op' = "setopt" /\ rc' = OK)
      ]_vars

\* C10 witness: getopt returns a value other than the default, stored by an
\* earlier setopt, while a request is in progress.
C10_Witness ==
    /\ op = "getopt" /\ rc = OK /\ status = "open"
    /\ optout = << [val |-> 100, len |-> SizeofInt] >>
    /\ resend_ivl = 100 /\ resend_ivl # SP_REQ_DEFAULT_RESEND_IVL
    /\ Pending

\* C11 as stated: getopt of SP_RESEND_IVL returns -EINVAL for every length
\* other than 4, smaller or larger.
C11_GetoptExactLength ==
    [][ op' = "getopt" =>
          \A l \in OptLens :
             (sp_req_getopt("SP_RESEND_IVL", l) /\ l # SizeofInt) => rc' = EINVAL
      ]_vars

\* C11: getopt of SP_RESEND_IVL returns -EINVAL, writing nothing, exactly
\* when the caller's length is below 4; with a length of 4 or more it returns
\* 0, writes the interval and sets the caller's length to 4.
C11_GetoptMinLength ==
    [][ op' = "getopt" =>
          \A l \in OptLens :
             sp_req_getopt("SP_RESEND_IVL", l)
                => /\ l < SizeofInt => (rc' = EINVAL /\ optout' = << >>)
                   /\ l >= SizeofInt
                         => /\ rc' = OK
                            /\ optout' = << [val |-> resend_ivl, len |-> SizeofInt] >>
                   /\ optlen0' = l
                   /\ UNCHANGED resend_ivl
      ]_vars

\* C11 witness: getopt was handed a buffer of 8 bytes and returned the
\* interval with length 4.
C11_Witness ==
    /\ op = "getopt" /\ rc = OK /\ status = "open"
    /\ optlen0 = 8 /\ optout # << >>
    /\ optout[1].len = SizeofInt /\ optout[1].val = resend_ivl

\* C12: after a recv that matched a reply whose payload (the bytes after the
\* tag) has length L, called with a buffer of capacity M, the first min(L, M)
\* bytes of the caller's buffer are the first min(L, M) payload bytes, the
\* rest of the buffer is untouched, and the length reported is L.
C12_TruncatedDelivery ==
    (op = "recv" /\ rc = OK /\ status # "aborted")
        => /\ reply # << >>
           /\ LET f == reply[1]
                  L == Len(f) - SizeofUint32
                  M == Len(ubuf)
                  k == IF L < M THEN L ELSE M
              IN  /\ L >= 0
                  /\ ulen = L
                  /\ \A i \in 1..M :
                        ubuf[i] = IF i <= k THEN f[SizeofUint32 + i]
                                  ELSE CallerBuf(M)[i]

\* C12 witness: a reply with a payload of 2 bytes was received into a buffer
\* of 1 byte: 1 byte copied, length 2 reported.
C12_Witness ==
    /\ op = "recv" /\ rc = OK /\ status = "open"
    /\ reply # << >> /\ Len(reply[1]) = SizeofUint32 + 2
    /\ Len(ubuf) = 1 /\ ubuf = << reply[1][SizeofUint32 + 1] >>
    /\ ulen = 2

\* C13: term, from any open state, leaves the timer disarmed and no buffer
\* live; in progress it cancels the timer and frees the stored request, a
\* live allocation, once; Idle it touches neither the timer nor the heap; in
\* both cases the raw socket is terminated.
C13_Termination ==
    [][ (op' = "term" /\ status = "open")
            => /\ ~resend_timer'.armed
               /\ heap' = << >>
               /\ status' = "closed"
               /\ inq' = << >> /\ outq' = {}
               /\ Pending => /\ resend_timer.armed
                              /\ request \in DOMAIN heap
                              /\ DOMAIN heap' = DOMAIN heap \ {request}
               /\ ~Pending => UNCHANGED <<heap, resend_timer>>
      ]_vars

\* C13 witness: the socket was closed with a request in progress: the timer
\* is cancelled and the request released.
C13_Witness ==
    /\ op = "term" /\ status = "closed"
    /\ Pending /\ request # NULL /\ nsends > 0
    /\ heap = << >> /\ ~resend_timer.armed

\* C14: inside a send that supersedes a request, as long as the old timer is
\* not cancelled, and its callback may therefore fire, the old request is
\* neither released nor forgotten and the in-progress flag is not cleared:
\* the cancel comes before the release and the clear.
C14_CancelThenMutate ==
    (status = "open" /\ pc # "idle" /\ resend_timer.armed)
        => (Pending /\ request \in DOMAIN heap)

\* C15: between operations, while the socket is open, the in-progress flag is
\* set exactly when the stored request is non-null and exactly when the timer
\* is armed; with the flag clear the request is NULL, its length 0 and the
\* timer not armed.
C15_StateInvariant ==
    status = "open"
        => /\ Pending <=> request # NULL
           /\ Pending <=> resend_timer.armed
           /\ Pending => (request \in DOMAIN heap /\ requestlen = Len(heap[request]))
           /\ ~Pending => IdleState

\* C15 witness: an option call between a superseding send and its reply: the
\* flag is set, the request stored and the timer armed.
C15_Witness ==
    /\ op = "setopt" /\ status = "open" /\ nsends = 2
    /\ Pending /\ request # NULL /\ resend_timer.armed

\* The operations that may release the stored request: send (superseding),
\* a recv that returns 0, term.
Releases == op' = "send" \/ (op' = "recv" /\ rc' = OK) \/ op' = "term"

\* C16: no free of an address that is not allocated (so no buffer is freed
\* twice); the only live buffer is the stored request (so no request and no
\* temporary reply buffer outlives its operation, and at most one request is
\* live); a failed recv, a resend, an option call leave the heap as it was; a
\* superseding send, a matching recv and term free the stored request.
C16_BufferOwnership ==
    [][ status' # "aborted"
          => /\ status' # "corrupt"
             /\ Cardinality(DOMAIN heap') <= 1
             /\ DOMAIN heap' \subseteq {request'} \ {NULL}
             /\ (Pending' /\ status' = "open") => DOMAIN heap' = {request'}
             /\ ~Releases => heap' = heap
             /\ (Releases /\ Pending)
                   => /\ request \in DOMAIN heap
                      /\ op' \in {"recv", "term"} => heap' = << >>
                      /\ op' = "send" => /\ DOMAIN heap' = {request'}
                                         /\ nsends' = nsends + 1
      ]_vars

\* C16 witness: after a superseding send, a recv that pulled a reply and
\* rejected it: its reply buffer is gone and the second request is the one
\* live buffer.
C16_Witness ==
    /\ op = "recv" /\ rc = EAGAIN /\ status = "open" /\ reply # << >>
    /\ nsends = 2 /\ Pending
    /\ DOMAIN heap = {request}
    /\ SubSeq(heap[request], 1, SizeofUint32) = TagBytes(reqid.lo)

\* C17: the assertion at the head of the resend routine never fails: the
\* timer is armed only while a request is in progress, and every step that
\* leaves InProgress (a matching recv, term) leaves the timer disarmed; a
\* superseding send cancels the old timer and arms the one of the new request.
C17_ResendOnlyInProgress ==
    [][ /\ ~(op' = "resend" /\ status' = "aborted" /\ rawrc' = "none")
        /\ (op' = "resend" /\ status = "open") => (Pending /\ resend_timer.armed)
        /\ (status' = "open" /\ resend_timer'.armed) => Pending'
        /\ (Pending /\ status = "open" /\ (~Pending' \/ status' = "closed"))
              => ~resend_timer'.armed
      ]_vars

\* C17 witness: the callback fired for the second request, sent after the
\* first one was answered or superseded, and found it in progress.
C17_Witness ==
    /\ op = "resend" /\ rc = OK /\ rawrc = OK /\ status = "open"
    /\ nsends = 2 /\ Pending
    /\ dispatched = << heap[request] >>

\* C18: the resend timer is never started while it is armed.
C18_OneTimer ==
    /\ ~resend_timer.clash
    /\ (op = "send" /\ status = "open") => resend_timer.armed
    /\ (op = "resend" /\ status = "open") => resend_timer.armed

\* C18 witness: the timer was started by a second send, both requests
\* waiting in the raw socket, and never while it was armed.
C18_Witness ==
    /\ op = "send" /\ status = "open" /\ nsends = 2
    /\ Cardinality(outq) = 2
    /\ resend_timer.armed /\ ~resend_timer.clash

\* C19: setopt leaves the timer (armed or not, and the interval it was armed
\* for), the request ID, the stored request and the flags as they were; the
\* interval it stored is the one the next send and the next firing of the
\* callback arm the timer for.
C19_SetoptFrame ==
    [][ /\ (op' = "setopt" /\ status = "open")
              => UNCHANGED <<resend_timer, reqid, request, requestlen, flags, heap>>
        /\ (op' = "send" /\ status' = "open")
              => (resend_timer'.armed /\ resend_timer'.ivl = resend_ivl)
        /\ ResendStep
              => (resend_timer'.armed /\ resend_timer'.ivl = resend_ivl)
      ]_vars

\* C19 witness: setopt has stored a new interval while the timer is running
\* for the default one, a request in progress.
C19_Witness ==
    /\ op = "setopt" /\ rc = OK /\ status = "open" /\ Pending
    /\ resend_ivl = 100
    /\ resend_timer.armed /\ resend_timer.ivl = SP_REQ_DEFAULT_RESEND_IVL

\* The cases in which recv, in progress, has no reply for the caller: the
\* raw socket has nothing, or its first reply is shorter than a tag, lacks
\* the marker bit or carries another ID.
Transient == Pending /\ (inq = << >> \/ ~Matches(Head(inq), reqid.lo))

\* C20: in each of these cases recv returns -EAGAIN and leaves the caller's
\* buffer and the caller's length (on entry: the capacity of the buffer) as
\* they were on entry: what the caller sees is the same in all of them.
C20_TransientAlike ==
    [][ (op' = "recv" /\ status = "open" /\ status' # "aborted" /\ Transient)
          => LET cap == Len(ubuf')
             IN  /\ rc' = EAGAIN
                 /\ cap \in Caps
                 /\ ubuf' = CallerBuf(cap)
                 /\ ulen' = cap
                 /\ UNCHANGED <<flags, reqid, resend_ivl, status>>
      ]_vars

\* C20 witness: recv rejected a reply shorter than a tag; the caller's buffer
\* of 3 bytes and its length are as on entry.
C20_Witness ==
    /\ op = "recv" /\ rc = EAGAIN /\ status = "open" /\ Pending
    /\ reply # << >> /\ Len(reply[1]) < SizeofUint32
    /\ ubuf = CallerBuf(3) /\ ulen = 3

====
